---- MODULE Spec2Model ----
(***************************************************************************)
(* Model of notebooks/power_laws.py: the NaN-masking wrappers around the   *)
(* scipy statistics, the orthogonal-distance power-law fit and the         *)
(* bootstrap loop around it.                                               *)
(*                                                                         *)
(* Floats are records [k, v]: k = "fin" with v the value in thousandths,   *)
(* k = "nan", k = "inf" with v the sign.  The results of the scipy         *)
(* routines (linregress, pearsonr, spearmanr, ODR) are kept as terms       *)
(* [k |-> "sym", v |-> <<routine, arguments>>] over the exact data they    *)
(* were given, so that what a routine was called with stays visible in     *)
(* everything computed from its result.                                    *)
(***************************************************************************)
EXTENDS Integers, Sequences, FiniteSets, TLC

VARIABLES pc, last, fitlog, rng,
          xs, ys, fraction, rounds,
          mask, masked_xs, masked_ys, tot, subset_size,
          exponents, prefactors, rs, i,
          draws, handed, failed, err, ret, callNo, prevDraws

vars == <<pc, last, fitlog, rng, xs, ys, fraction, rounds,
          mask, masked_xs, masked_ys, tot, subset_size,
          exponents, prefactors, rs, i,
          draws, handed, failed, err, ret, callNo, prevDraws>>

(***************************************************************************)
(* Bounds of the model.                                                    *)
(***************************************************************************)
MaxLen == 3
MaxBootLen == 2
MaxRounds == 2
RngMod == 7

(***************************************************************************)
(* Floating-point values.                                                  *)
(***************************************************************************)
NaN == [k |-> "nan", v |-> 0]
PosInf == [k |-> "inf", v |-> 1]
NegInf == [k |-> "inf", v |-> -1]
Fin(n) == [k |-> "fin", v |-> n]
Sym(t) == [k |-> "sym", v |-> t]
None == [k |-> "none", v |-> 0]

\* np.isnan / np.isfinite on one element.  A term returned by a statistic
\* never appears in the data, so both are only applied to fin/nan/inf.
isnan(a) == a.k = "nan"
isfinite(a) == a.k = "fin"

\* Natural logarithm of a positive value, in thousandths: ln 2 = 693, linear
\* interpolation inside one octave.
RECURSIVE LogPos(_)
LogPos(n) ==
    IF n >= 2000 THEN 693 + LogPos(n \div 2)
    ELSE IF n < 1000 THEN LogPos(2 * n) - 693
    ELSE ((n - 1000) * 693) \div 1000

\* np.log on one element: log(0) = -inf, log(negative) = nan, log(inf) = inf.
log(a) ==
    IF a.k = "nan" THEN NaN
    ELSE IF a.k = "inf" THEN (IF a.v > 0 THEN PosInf ELSE NaN)
    ELSE IF a.v = 0 THEN NegInf
    ELSE IF a.v < 0 THEN NaN
    ELSE Fin(LogPos(a.v))

\* np.log on an array.
np_log(a) == [j \in 1..Len(a) |-> log(a[j])]

\* np.exp of a fit parameter.
np_exp(a) ==
    IF a.k = "nan" THEN NaN
    ELSE IF a.k = "inf" THEN (IF a.v > 0 THEN PosInf ELSE Fin(0))
    ELSE Sym(<<"exp", a>>)

\* Boolean-mask indexing a[m]: the elements of a where m is true, in order.
RECURSIVE Select(_, _)
Select(a, m) ==
    IF Len(a) = 0 THEN <<>>
    ELSE IF Head(m) THEN <<Head(a)>> \o Select(Tail(a), Tail(m))
    ELSE Select(Tail(a), Tail(m))

\* Integer-array indexing a[idxs], idxs zero-based.
Take(a, idxs) == [j \in 1..Len(idxs) |-> a[idxs[j] + 1]]

\* The number of true entries of a mask (np.sum).
RECURSIVE np_sum(_)
np_sum(m) == IF Len(m) = 0 THEN 0 ELSE (IF Head(m) THEN 1 ELSE 0) + np_sum(Tail(m))

\* All sequences over S of length at most n.
SeqsUpTo(S, n) == UNION { [1..m -> S] : m \in 0..n }

Col(rows, c) == [j \in 1..Len(rows) |-> rows[j][c]]

(***************************************************************************)
(* The scipy routines the module calls.  Each returns the set of outcomes  *)
(* the call can have: [raised, val], raised = "none" when it returns.      *)
(***************************************************************************)
Returns(v) == [raised |-> "none", val |-> v]
Raises(e) == [raised |-> e, val |-> None]

AllSame(a) == \A j \in 1..Len(a) : a[j] = a[1]

\* scipy.stats.linregress(x, y) -> (slope, intercept, rvalue, pvalue, stderr).
\* Empty input is rejected; one point gives 0/0 = nan for the line; constant
\* x is rejected by recent scipy and gives nan in older ones.
linregress(x, y) ==
    IF Len(x) = 0 THEN { Raises("ValueError") }
    ELSE IF Len(x) = 1 THEN { Returns(<<NaN, NaN, Fin(0), NaN, NaN>>) }
    ELSE IF AllSame(x) THEN { Raises("ValueError"),
                              Returns(<<NaN, NaN, Fin(0), NaN, NaN>>) }
    ELSE { Returns([j \in 1..5 |-> Sym(<<"linregress", j, x, y>>)]) }

\* scipy.stats.pearsonr(x, y) -> (r, p).  Fewer than two points are rejected
\* by recent scipy and give nan in older ones.
pearsonr(x, y) ==
    IF Len(x) < 2 THEN { Raises("ValueError"), Returns(<<NaN, NaN>>) }
    ELSE { Returns([j \in 1..2 |-> Sym(<<"pearsonr", j, x, y>>)]) }

\* scipy.stats.spearmanr(x, y) -> (rho, p).
spearmanr(x, y) ==
    IF Len(x) < 2 THEN { Returns(<<NaN, NaN>>) }
    ELSE { Returns([j \in 1..2 |-> Sym(<<"spearmanr", j, x, y>>)]) }

\* ODRPACK's info code in Output.info: 1..3 report convergence, 4 reports
\* that the iteration limit was reached.
OdrInfos == {1, 4}
Converged(info) == info < 4

\* ODR(Data(x, y), Model(f), beta0 = beta0).run(): an Output with one fitted
\* parameter per starting parameter.  run() returns in both cases.
odr_run(f, x, y, beta0) ==
    { [info |-> info,
       beta |-> [j \in 1..Len(beta0) |-> Sym(<<"odr", f, j, x, y, beta0, info>>)]]
      : info \in OdrInfos }

(***************************************************************************)
(* The two model functions handed to the solver, as function values.       *)
(***************************************************************************)
lin_f == "_lin_f"
slope_one == "_slope_one"

(***************************************************************************)
(* The masking wrappers.  Each returns the set of its outcomes, a record   *)
(* with the mask, the data given to the statistic and the result.          *)
(***************************************************************************)
Outcome(fn, log_xs, log_ys, m, x, y, o) ==
    [fn |-> fn, log_xs |-> log_xs, log_ys |-> log_ys, mask |-> m,
     xs_ |-> x, ys_ |-> y, raised |-> o.raised, val |-> o.val]

log_spearmanr(log_xs, log_ys) ==
    LET m == [j \in 1..Len(log_xs) |-> ~isnan(log_xs[j]) /\ ~isnan(log_ys[j])]
        xs_ == Select(log_xs, m)
        ys_ == Select(log_ys, m)
    IN  { Outcome("log_spearmanr", log_xs, log_ys, m, xs_, ys_, o)
          : o \in spearmanr(xs_, ys_) }

log_pearsonr(log_xs, log_ys) ==
    LET m == [j \in 1..Len(log_xs) |-> ~isnan(log_xs[j]) /\ ~isnan(log_ys[j])]
        xs_ == Select(log_xs, m)
        ys_ == Select(log_ys, m)
    IN  { Outcome("log_pearsonr", log_xs, log_ys, m, xs_, ys_, o)
          : o \in pearsonr(xs_, ys_) }

\* log_linregress with the mask built from log_xs alone.
log_linregress_xonly(log_xs, log_ys) ==
    LET m == [j \in 1..Len(log_xs) |-> ~isnan(log_xs[j])]
        xs_ == Select(log_xs, m)
        ys_ == Select(log_ys, m)
    IN  { Outcome("log_linregress", log_xs, log_ys, m, xs_, ys_, o)
          : o \in linregress(xs_, ys_) }

log_linregress(log_xs, log_ys) ==
    LET m == [j \in 1..Len(log_xs) |-> ~isnan(log_xs[j]) /\ ~isnan(log_ys[j])]
        xs_ == Select(log_xs, m)
        ys_ == Select(log_ys, m)
    IN  { Outcome("log_linregress", log_xs, log_ys, m, xs_, ys_, o)
          : o \in linregress(xs_, ys_) }

\* Returns exponent, prefactor, r_val, p_val, stderr.
fit_power_law(log_xs, log_ys) ==
    LET m == [j \in 1..Len(log_xs) |-> ~isnan(log_xs[j]) /\ ~isnan(log_ys[j])]
        xs_ == Select(log_xs, m)
        ys_ == Select(log_ys, m)
        Result(o) ==
            IF o.raised # "none" THEN o
            ELSE LET slope == o.val[1]
                     intercept == o.val[2]
                     prefactor == np_exp(intercept)
                     exponent == slope
                 IN  Returns(<<exponent, prefactor, o.val[3], o.val[4], o.val[5]>>)
    IN  { Outcome("fit_power_law", log_xs, log_ys, m, xs_, ys_, Result(o))
          : o \in linregress(xs_, ys_) }

(***************************************************************************)
(* fit_power_law_odr: the set of outcomes of one call.  An outcome records *)
(* what each of the three computations was given, whether the solver was   *)
(* started, the solver's info code and the returned triple.                *)
(***************************************************************************)
\* odr_mask without the np.isfinite line.
odr_mask_nanonly(log_xs, log_ys) ==
    [j \in 1..Len(log_xs) |-> ~isnan(log_xs[j]) /\ ~isnan(log_ys[j])]

odr_mask(log_xs, log_ys) ==
    [j \in 1..Len(log_xs) |->
        (~isnan(log_xs[j]) /\ ~isnan(log_ys[j]))
        /\ (isfinite(log_xs[j]) /\ isfinite(log_ys[j]))]

\* The starting parameters and the model function chosen by unit_exp.
odr_f(unit_exp) == IF unit_exp THEN slope_one ELSE lin_f
odr_beta0(unit_exp, linreg) ==
    IF unit_exp THEN <<linreg[2]>> ELSE <<linreg[1], linreg[2]>>

\* odr_slope reading the solver's first parameter in both modes.
odr_slope_fitted(unit_exp, out) == out.beta[1]

\* Slope and intercept taken from the solver's output.
odr_slope(unit_exp, out) == IF unit_exp THEN Fin(1000) ELSE out.beta[1]
odr_intercept(unit_exp, out) == IF unit_exp THEN out.beta[1] ELSE out.beta[2]

NoData == <<>>
NotRun == [info |-> 0, beta |-> <<>>]
NotCalled == [raised |-> "notcalled", val |-> None]

\* The record of one call: linArgs, odrArgs and prArgs are the arrays that
\* linregress, Data(...) and pearsonr were called with.
FitOutcome(log_xs, log_ys, unit_exp, m, linArgs, odrArgs, prArgs, lin, out, pr) ==
    LET returned == lin.raised = "none" /\ pr.raised = "none"
    IN  [log_xs |-> log_xs, log_ys |-> log_ys, unit_exp |-> unit_exp,
         mask |-> m,
         linregArgs |-> linArgs,
         odrStarted |-> out.info # 0,
         odrArgs |-> odrArgs,
         info |-> out.info,
         pearsonCalled |-> pr.raised # "notcalled",
         pearsonArgs |-> prArgs,
         raised |-> IF lin.raised # "none" THEN lin.raised
                    ELSE IF pr.raised # "none" THEN pr.raised ELSE "none",
         exponent |-> IF returned THEN odr_slope(unit_exp, out) ELSE None,
         prefactor |-> IF returned THEN np_exp(odr_intercept(unit_exp, out)) ELSE None,
         r |-> IF returned THEN pr.val[1] ELSE None]

fit_power_law_odr(log_xs, log_ys, unit_exp) ==
    LET m == odr_mask(log_xs, log_ys)
        xs_ == Select(log_xs, m)
        ys_ == Select(log_ys, m)
    IN  UNION {
          IF lin.raised # "none"
          THEN { FitOutcome(log_xs, log_ys, unit_exp, m, <<xs_, ys_>>, NoData, NoData,
                            lin, NotRun, NotCalled) }
          ELSE { FitOutcome(log_xs, log_ys, unit_exp, m, <<xs_, ys_>>, <<xs_, ys_>>,
                            <<xs_, ys_>>, lin, out, pr)
                 : out \in odr_run(odr_f(unit_exp), xs_, ys_, odr_beta0(unit_exp, lin.val)),
                   pr \in pearsonr(xs_, ys_) }
          : lin \in linregress(xs_, ys_) }

NoFit ==
    [log_xs |-> <<>>, log_ys |-> <<>>, unit_exp |-> FALSE,
     mask |-> <<>>,
     linregArgs |-> NoData, odrStarted |-> FALSE, odrArgs |-> NoData,
     info |-> 0,
     pearsonCalled |-> FALSE, pearsonArgs |-> NoData, raised |-> "nocall",
     exponent |-> None, prefactor |-> None, r |-> None]

NoCall ==
    [fn |-> "none", log_xs |-> <<>>, log_ys |-> <<>>, mask |-> <<>>,
     xs_ |-> <<>>, ys_ |-> <<>>, raised |-> "none", val |-> None]

(***************************************************************************)
(* bootstrap_power_law_odr.                                                *)
(***************************************************************************)
bootstrap_mask(x, y) == [j \in 1..Len(x) |-> isfinite(x[j]) /\ isfinite(y[j])]

\* int(n / d) for d > 0: Python's int() truncates toward zero.
Trunc(n, d) == IF n >= 0 THEN n \div d ELSE -((-n) \div d)

\* int(fraction * tot), fraction given as <<numerator, denominator>>.
subset_size_of(frac, t) == Trunc(frac[1] * t, frac[2])

\* The process-wide generator behind np.random: a linear congruential
\* generator stands for it.  Each output advances the state.
rng_next(s) == (3 * s + 1) % RngMod

RECURSIVE Draw(_, _, _)
Draw(s, t, n) ==
    IF n = 0 THEN [idxs |-> <<>>, rng |-> s]
    ELSE LET s1 == rng_next(s)
             rest == Draw(s1, t, n - 1)
         IN  [idxs |-> <<s1 % t>> \o rest.idxs, rng |-> rest.rng]

\* np.random.choice(tot, subset_size): size integers from range(tot), with
\* replacement.  A negative size, or an empty population with a positive
\* size, raises ValueError.
choice(s, t, n) ==
    IF n < 0 \/ (t = 0 /\ n > 0)
    THEN [raised |-> "ValueError", idxs |-> <<>>, rng |-> s]
    ELSE IF n = 0 THEN [raised |-> "none", idxs |-> <<>>, rng |-> s]
    ELSE LET d == Draw(s, t, n)
         IN  [raised |-> "none", idxs |-> d.idxs, rng |-> d.rng]

\* range_has_next running one round too many.
range_has_next_inclusive(k, n) == k <= n

\* for _ in range(rounds): is there a round after k completed ones?
range_has_next(k, n) == k < n

\* round_step with the fit wrapped in try/except: a failed round is skipped.
round_step_skip(o, exps, pres, rvals) ==
    IF o.raised # "none"
    THEN [pc |-> "loop", err |-> "none",
          exponents |-> exps, prefactors |-> pres, rs |-> rvals]
    ELSE [pc |-> "loop", err |-> "none",
          exponents |-> Append(exps, o.exponent),
          prefactors |-> Append(pres, o.prefactor),
          rs |-> Append(rvals, o.r)]

\* The rest of the loop body after the fit of one round returned or raised:
\* a raise leaves the function, a return appends to the three lists.
round_step(o, exps, pres, rvals) ==
    IF o.raised # "none"
    THEN [pc |-> "raised", err |-> o.raised,
          exponents |-> exps, prefactors |-> pres, rs |-> rvals]
    ELSE [pc |-> "loop", err |-> "none",
          exponents |-> Append(exps, o.exponent),
          prefactors |-> Append(pres, o.prefactor),
          rs |-> Append(rvals, o.r)]

NoRet == [returned |-> FALSE, exponents |-> <<>>, prefactors |-> <<>>, rs |-> <<>>]

\* return np.array(exponents), np.array(prefactors), np.array(rs)
bootstrap_return(exps, pres, rvals) ==
    [returned |-> TRUE, exponents |-> exps, prefactors |-> pres, rs |-> rvals]

(***************************************************************************)
(* Inputs.                                                                 *)
(***************************************************************************)
\* Log-scale (x, y) rows for the direct calls.
LogRows ==
    { <<Fin(0), Fin(0)>>, <<Fin(693), Fin(1386)>>, <<Fin(1386), Fin(693)>>,
      <<NaN, Fin(0)>>, <<Fin(693), NaN>>,
      <<NegInf, Fin(0)>>, <<Fin(0), PosInf>> }

\* Linear-scale (x, y) rows for the bootstrap.
BootRows ==
    { <<Fin(1000), Fin(2000)>>, <<Fin(2000), Fin(4000)>>,
      <<Fin(0), Fin(1000)>>, <<Fin(-1000), Fin(2000)>>,
      <<NaN, Fin(1000)>>, <<Fin(1000), PosInf>> }

\* fraction as <<numerator, denominator>>; 9/10 is the default.
Fractions == { <<-1, 2>>, <<0, 1>>, <<1, 2>>, <<9, 10>>, <<1, 1>>, <<3, 2>> }

\* The functions keep nothing between calls except the generator's state, which
\* Init leaves arbitrary: a behaviour is one call made in a fresh state (and,
\* for the bootstrap, the same call made again).
Callable == pc = "idle" /\ last.fn = "none" /\ fitlog.raised = "nocall"

BootIdle ==
    /\ xs = <<>> /\ ys = <<>> /\ fraction = <<0, 1>> /\ rounds = 0
    /\ mask = <<>> /\ masked_xs = <<>> /\ masked_ys = <<>>
    /\ tot = 0 /\ subset_size = 0
    /\ exponents = <<>> /\ prefactors = <<>> /\ rs = <<>> /\ i = 0
    /\ draws = <<>> /\ handed = <<>> /\ failed = 0 /\ err = "none"
    /\ ret = NoRet /\ callNo = 0 /\ prevDraws = <<>>

Init ==
    /\ pc = "idle"
    /\ last = NoCall
    /\ fitlog = NoFit
    /\ rng \in 0..(RngMod - 1)
    /\ BootIdle

\* A direct call leaves no bootstrap frame behind.
ResetBoot ==
    /\ xs' = <<>> /\ ys' = <<>> /\ fraction' = <<0, 1>> /\ rounds' = 0
    /\ mask' = <<>> /\ masked_xs' = <<>> /\ masked_ys' = <<>>
    /\ tot' = 0 /\ subset_size' = 0
    /\ exponents' = <<>> /\ prefactors' = <<>> /\ rs' = <<>> /\ i' = 0
    /\ draws' = <<>> /\ handed' = <<>> /\ failed' = 0 /\ err' = "none"
    /\ ret' = NoRet /\ callNo' = 0 /\ prevDraws' = <<>>

CallLogSpearmanr ==
    /\ Callable
    /\ \E rows \in SeqsUpTo(LogRows, MaxLen) :
         \E o \in log_spearmanr(Col(rows, 1), Col(rows, 2)) : last' = o
    /\ pc' = "idle" /\ fitlog' = NoFit /\ ResetBoot /\ UNCHANGED rng

CallLogPearsonr ==
    /\ Callable
    /\ \E rows \in SeqsUpTo(LogRows, MaxLen) :
         \E o \in log_pearsonr(Col(rows, 1), Col(rows, 2)) : last' = o
    /\ pc' = "idle" /\ fitlog' = NoFit /\ ResetBoot /\ UNCHANGED rng

CallLogLinregress ==
    /\ Callable
    /\ \E rows \in SeqsUpTo(LogRows, MaxLen) :
         \E o \in log_linregress(Col(rows, 1), Col(rows, 2)) : last' = o
    /\ pc' = "idle" /\ fitlog' = NoFit /\ ResetBoot /\ UNCHANGED rng

CallFitPowerLaw ==
    /\ Callable
    /\ \E rows \in SeqsUpTo(LogRows, MaxLen) :
         \E o \in fit_power_law(Col(rows, 1), Col(rows, 2)) : last' = o
    /\ pc' = "idle" /\ fitlog' = NoFit /\ ResetBoot /\ UNCHANGED rng

CallFitPowerLawOdr ==
    /\ Callable
    /\ \E rows \in SeqsUpTo(LogRows, MaxLen), unit_exp \in BOOLEAN :
         \E o \in fit_power_law_odr(Col(rows, 1), Col(rows, 2), unit_exp) : fitlog' = o
    /\ pc' = "idle" /\ last' = NoCall /\ ResetBoot /\ UNCHANGED rng

\* Lines 163-173: the mask, the filtered arrays, the subset size and the
\* three empty lists.
Enter(x, y, frac, n, no, prev) ==
    LET m == bootstrap_mask(x, y)
        t == np_sum(m)
    IN  /\ xs' = x /\ ys' = y /\ fraction' = frac /\ rounds' = n
        /\ mask' = m
        /\ masked_xs' = Select(x, m)
        /\ masked_ys' = Select(y, m)
        /\ tot' = t
        /\ subset_size' = subset_size_of(frac, t)
        /\ exponents' = <<>> /\ prefactors' = <<>> /\ rs' = <<>> /\ i' = 0
        /\ draws' = <<>> /\ handed' = <<>> /\ failed' = 0 /\ err' = "none"
        /\ ret' = NoRet /\ callNo' = no /\ prevDraws' = prev
        /\ pc' = "loop" /\ last' = NoCall /\ fitlog' = NoFit
        /\ UNCHANGED rng

BootstrapStart ==
    /\ Callable
    /\ \E rows \in SeqsUpTo(BootRows, MaxBootLen), frac \in Fractions, n \in 0..MaxRounds :
         Enter(Col(rows, 1), Col(rows, 2), frac, n, 1, <<>>)

\* The caller calls again with the arguments of the call that just returned.
BootstrapRepeat ==
    /\ pc = "returned" /\ callNo = 1
    /\ Enter(xs, ys, fraction, rounds, 2, draws)

\* One pass through the loop body, lines 175-182.
BootstrapRound ==
    /\ pc = "loop"
    /\ range_has_next(i, rounds)
    /\ LET c == choice(rng, tot, subset_size)
       IN  IF c.raised # "none"
           THEN /\ pc' = "raised" /\ err' = c.raised
                /\ i' = i + 1
                /\ UNCHANGED <<rng, exponents, prefactors, rs, draws, handed,
                               failed, fitlog>>
           ELSE LET xs_sub == Take(masked_xs, c.idxs)
                    ys_sub == Take(masked_ys, c.idxs)
                IN  \E o \in fit_power_law_odr(np_log(xs_sub), np_log(ys_sub), FALSE) :
                      LET nx == round_step(o, exponents, prefactors, rs)
                      IN  /\ pc' = nx.pc /\ err' = nx.err
                          /\ exponents' = nx.exponents
                          /\ prefactors' = nx.prefactors
                          /\ rs' = nx.rs
                          /\ i' = i + 1
                          /\ rng' = c.rng
                          /\ draws' = Append(draws, c.idxs)
                          /\ handed' = Append(handed, <<xs_sub, ys_sub>>)
                          /\ failed' = IF o.raised # "none" THEN i + 1 ELSE failed
                          /\ fitlog' = o
    /\ UNCHANGED <<last, xs, ys, fraction, rounds, mask, masked_xs, masked_ys,
                   tot, subset_size, ret, callNo, prevDraws>>

BootstrapReturn ==
    /\ pc = "loop"
    /\ ~range_has_next(i, rounds)
    /\ ret' = bootstrap_return(exponents, prefactors, rs)
    /\ pc' = "returned"
    /\ UNCHANGED <<last, fitlog, rng, xs, ys, fraction, rounds, mask, masked_xs,
                   masked_ys, tot, subset_size, exponents, prefactors, rs, i,
                   draws, handed, failed, err, callNo, prevDraws>>

Next ==
    \/ CallLogSpearmanr
    \/ CallLogPearsonr
    \/ CallLogLinregress
    \/ CallFitPowerLaw
    \/ CallFitPowerLawOdr
    \/ BootstrapStart
    \/ BootstrapRepeat
    \/ BootstrapRound
    \/ BootstrapReturn

Spec == Init /\ [][Next]_vars

(***************************************************************************)
(* Properties.                                                             *)
(***************************************************************************)
InBootstrap == pc \in {"loop", "returned", "raised"}
ValidFraction == fraction[1] > 0 /\ fraction[1] <= fraction[2]

\* The pairs of two arrays whose x and y are both finite / both not nan, in
\* order, as <<xs, ys>>.
RECURSIVE FinitePairs(_, _)
FinitePairs(x, y) ==
    IF Len(x) = 0 THEN <<<<>>, <<>>>>
    ELSE LET rest == FinitePairs(Tail(x), Tail(y))
         IN  IF Head(x).k = "fin" /\ Head(y).k = "fin"
             THEN << <<Head(x)>> \o rest[1], <<Head(y)>> \o rest[2] >>
             ELSE rest

RECURSIVE NonNanPairs(_, _)
NonNanPairs(x, y) ==
    IF Len(x) = 0 THEN <<<<>>, <<>>>>
    ELSE LET rest == NonNanPairs(Tail(x), Tail(y))
         IN  IF Head(x).k # "nan" /\ Head(y).k # "nan"
             THEN << <<Head(x)>> \o rest[1], <<Head(y)>> \o rest[2] >>
             ELSE rest

\* C1: a bootstrap call that returns yields three sequences of length exactly
\* rounds; while the loop runs each of the three accumulators holds exactly
\* one entry per completed round.
C1_LengthIsRounds ==
    /\ pc = "loop" =>
         Len(exponents) = i /\ Len(prefactors) = i /\ Len(rs) = i /\ i <= rounds
    /\ pc = "returned" =>
         /\ ret.returned
         /\ Len(ret.exponents) = rounds
         /\ Len(ret.prefactors) = rounds
         /\ Len(ret.rs) = rounds

C1_Witness ==
    pc = "returned" /\ ValidFraction /\ rounds >= 2 /\ subset_size >= 2
    /\ Len(ret.exponents) = rounds

\* C2: whenever fraction <= 0 or fraction > 1, or fewer than 2 valid points
\* remain, or the subset size is below 2, the bootstrap raises
\* InsufficientDataError, runs no round and returns nothing.
C2_RejectsInvalid ==
    (InBootstrap /\ (~ValidFraction \/ tot < 2 \/ subset_size < 2)) =>
        /\ pc = "raised" /\ err = "InsufficientDataError"
        /\ i = 0 /\ draws = <<>> /\ ~ret.returned

C4_UnitExponent ==
    (fitlog.unit_exp /\ fitlog.raised = "none") =>
        /\ fitlog.exponent = Fin(1000)
        /\ fitlog.prefactor.k = "sym"
        /\ fitlog.prefactor.v[1] = "exp"
        /\ fitlog.prefactor.v[2].v[1] = "odr"
        /\ fitlog.prefactor.v[2].v[2] = slope_one
        /\ fitlog.prefactor.v[2].v[3] = 1

C4_Witness ==
    /\ fitlog.unit_exp /\ fitlog.raised = "none"
    /\ Len(fitlog.odrArgs[1]) >= 2
    /\ fitlog.exponent = Fin(1000)

\* C5: the fit fails for lack of data exactly when fewer than 2 (free slope)
\* or fewer than 1 (unit exponent) valid points remain after masking, and the
\* solver is never started on fewer points than that minimum.
C5_MinimumPoints ==
    fitlog.raised # "nocall" =>
        LET n == Len(FinitePairs(fitlog.log_xs, fitlog.log_ys)[1])
            min == IF fitlog.unit_exp THEN 1 ELSE 2
        IN  /\ (fitlog.raised # "none") <=> (n < min)
            /\ fitlog.odrStarted => n >= min

\* C6: when the solver ends without converging the fit raises and returns no
\* (exponent, prefactor, r).
C6_NonConvergenceRaises ==
    (fitlog.odrStarted /\ ~Converged(fitlog.info)) =>
        /\ fitlog.raised # "none"
        /\ fitlog.exponent = None /\ fitlog.prefactor = None /\ fitlog.r = None

\* C7: once the fit of round number `failed` has raised, the bootstrap has
\* raised that error, no later round has been started, and nothing is
\* returned, whatever the earlier rounds accumulated.
C7_FailurePropagates ==
    failed # 0 =>
        /\ pc = "raised"
        /\ err = fitlog.raised /\ err # "none"
        /\ i = failed
        /\ Len(draws) = failed
        /\ ~ret.returned /\ ret = NoRet

C7_Witness ==
    /\ failed = 2 /\ pc = "raised"
    /\ Len(exponents) = 1
    /\ ret = NoRet

Floor(n, d) == n \div d

\* C9: the mask is the finite-pairs mask of the arguments and the subset size
\* is floor(fraction * number of valid points), both fixed for the call; each
\* round draws exactly subset-size indices of the filtered arrays, and every
\* pair handed to the fit is an original pair with finite x and y.
C9_SubsetOfValidPairs ==
    InBootstrap =>
        /\ mask = [j \in 1..Len(xs) |-> xs[j].k = "fin" /\ ys[j].k = "fin"]
        /\ <<masked_xs, masked_ys>> = FinitePairs(xs, ys)
        /\ tot = Len(masked_xs)
        /\ subset_size = Floor(fraction[1] * tot, fraction[2])
        /\ \A n \in 1..Len(draws) :
             /\ Len(draws[n]) = subset_size
             /\ \A j \in 1..subset_size :
                  /\ draws[n][j] \in 0..(tot - 1)
                  /\ \E q \in 1..Len(xs) :
                       /\ xs[q].k = "fin" /\ ys[q].k = "fin"
                       /\ handed[n][1][j] = xs[q]
                       /\ handed[n][2][j] = ys[q]

\* C10: in every fit, the OLS warm start, the solver and the Pearson
\* correlation get the same arrays: exactly the pairs of the fit's input in
\* which both log x and log y are finite.
C10_SameFiniteData ==
    fitlog.raised # "nocall" =>
        LET d == FinitePairs(fitlog.log_xs, fitlog.log_ys)
        IN  /\ fitlog.linregArgs = d
            /\ fitlog.odrStarted => fitlog.odrArgs = d
            /\ fitlog.pearsonCalled => fitlog.pearsonArgs = d
            /\ \A j \in 1..Len(fitlog.linregArgs[1]) :
                 /\ fitlog.linregArgs[1][j].k = "fin"
                 /\ fitlog.linregArgs[2][j].k = "fin"

C10_Witness ==
    /\ InBootstrap /\ i >= 1
    /\ fitlog.odrStarted /\ fitlog.pearsonCalled
    /\ \E j \in 1..Len(fitlog.log_xs) :
         fitlog.log_xs[j] = NegInf \/ fitlog.log_xs[j] = NaN
    /\ Len(fitlog.odrArgs[1]) < Len(fitlog.log_xs)
    /\ fitlog.odrArgs = fitlog.pearsonArgs

====
